---- MODULE Spec2Model ----
(***************************************************************************)
(* The ERP sales-order chatbot: the synchronizer (preloadERPData,          *)
(* fetchAllSalesOrders, mergeNewData, the 60 s timer), the durable store   *)
(* and the /chatbot request path, for the three variants of the engine in  *)
(* the repository:                                                         *)
(*   "index" : src/chat-main/index.js  (MySQL + JSON backup)               *)
(*   "part0" : src/unnamed/part_000    (PostgreSQL upsert + JSON backup)   *)
(*   "part1" : src/unnamed/part_001    (PostgreSQL, loaded from the table) *)
(* A step of the model is one turn of the Node.js event loop: the code     *)
(* that runs between two awaits of a network or database round trip.       *)
(***************************************************************************)
EXTENDS Integers, Sequences, FiniteSets, TLC

VARIABLES
    variant,      \* which of the three source files is running
    proc,         \* process phase: "boot", "loading", "startup", "running", "down"
    allERPData,   \* the in-memory set (let allERPData)
    dataFile,     \* erpData.json (index, part0); <<>> when the file is absent
    db,           \* the sales_orders table: a set of rows, so_pk is the key
    pass,         \* the invocations of preloadERPData, one per slot
    req,          \* the POST /chatbot request in flight
    dbFailures,   \* how many store round trips have failed so far
    fires,        \* how many times the timer has fired so far
    restarts,     \* how many times the process has been started again
    chat,         \* the POST /chatbot request as the query engine handles it
    norm,         \* an application of summarizeERPData to one upstream record
    paging        \* a call of fetchAllSalesOrders against a scripted upstream

vars == <<variant, proc, allERPData, dataFile, db, pass, req, dbFailures, fires, restarts,
          chat, norm, paging>>

-----------------------------------------------------------------------------
(* Program constants and the bounds of the model *)

startYear == 2020
limit == 500

\* new Date().getFullYear(): the last year a pass visits
CurrentYear == 2021
\* how many invocations of preloadERPData the model lets overlap
MaxPasses == 2
\* how many times the timer fires in one behaviour
MaxTimerFires == 1
\* how many store round trips may fail in one behaviour
MaxDbFailures == 1
\* how many times the process may be started again after it went down
MaxRestarts == 1

Variants == {"index", "part0", "part1"}
Years == startYear..CurrentYear
Slots == 1..MaxPasses

-----------------------------------------------------------------------------
(* Upstream records.  A record carries the upstream primary key so_pk, the *)
(* order number so_upk, TotalAmount_TransH and Name_Cust; the other fields *)
(* of the payload play no part in the merge.  Order k of year y has        *)
(* so_pk 10*(y - startYear) + k.                                           *)

Raw(y, k, amt, cust) ==
    [so_pk |-> 10 * (y - startYear) + k, so_upk |-> 10 * (y - startYear) + k,
     TotalAmount_TransH |-> amt, Name_Cust |-> cust]

\* The pages the upstream may return for the date range of year y.  Every year
\* has nothing or its first order; the start year also has that order after an
\* edit upstream, the order twice in one page, and two orders.
Pages(y) ==
    { <<>>, <<Raw(y, 1, 10, "Acme")>> }
    \cup IF y = startYear
            THEN { <<Raw(y, 1, 20, "Apex")>>,
                   <<Raw(y, 1, 10, "Acme"), Raw(y, 1, 10, "Acme")>>,
                   <<Raw(y, 1, 10, "Acme"), Raw(y, 2, 10, "Acme")>> }
            ELSE {}

\* What one POST to the ERP API can come to.
Responses(y) ==
    { [kind |-> "reject", body |-> [shape |-> "none", data |-> <<>>]],       \* fetch() rejects
      [kind |-> "unparsable", body |-> [shape |-> "none", data |-> <<>>]],   \* response.json() rejects
      [kind |-> "json", body |-> [shape |-> "null", data |-> <<>>]],         \* the body is null
      [kind |-> "json", body |-> [shape |-> "nodata", data |-> <<>>]],       \* an object without data
      [kind |-> "json", body |-> [shape |-> "data", data |-> <<>>]] }        \* { data: [] }
    \cup { [kind |-> "json", body |-> [shape |-> "data", data |-> <<pg>>]] : pg \in Pages(y) }

FetchFailures == {"reject", "unparsable"}

-----------------------------------------------------------------------------
(* Pure functions of the source *)

\* callERP without its try/catch: a rejected fetch or an unparsable body throws
callERP_NoCatch(resp) ==
    [threw |-> resp.kind \in FetchFailures, value |-> resp.body]

\* callERP: the try/catch turns a rejected fetch or an unparsable body into { data: [] }
callERP(resp) ==
    IF resp.kind \in FetchFailures
        THEN [threw |-> FALSE, value |-> [shape |-> "data", data |-> <<>>]]
        ELSE [threw |-> FALSE, value |-> resp.body]

\* res.data?.[0] || []
soListOf(res) ==
    IF res.shape = "data" /\ Len(res.data) >= 1 THEN res.data[1] ELSE <<>>

\* summarizeERPData, on the fields the merge reads: the canonical record
\* [so_pk, so_upk (so_number), amount, customer].
summarizeERPData(erpData) ==
    [k \in DOMAIN erpData |->
        [so_pk |-> erpData[k].so_pk, so_upk |-> erpData[k].so_upk,
         amount |-> erpData[k].TotalAmount_TransH, customer |-> erpData[k].Name_Cust]]

Ids(recs) == {recs[k].so_pk : k \in DOMAIN recs}
Upks(recs) == {recs[k].so_upk : k \in DOMAIN recs}
DbIds(table) == {row.so_pk : row \in table}

\* index.js: allERPData = newData.map(...): the batch replaces the set
MergeIndex(old, newData) == newData

\* part_000: [...allERPData.filter(old => !newData.some(n => n.so_upk === old.so_upk)), ...newData]
MergePart0(old, newData) ==
    SelectSeq(old, LAMBDA o : o.so_upk \notin Upks(newData)) \o newData

\* part_001: newData.filter(o => !existingSO.has(o.so_pk))
FilteredNew(old, newData) ==
    SelectSeq(newData, LAMBDA o : o.so_pk \notin Ids(old))

\* index.js: INSERT ... ON DUPLICATE KEY UPDATE <every column>
UpsertIndex(table, so) ==
    {row \in table : row.so_pk # so.so_pk} \cup {so}

\* part_000: INSERT ... ON CONFLICT (so_pk) DO UPDATE SET TotalAmount_TransH, Status_TransH
UpsertPart0(table, r) ==
    IF r.so_pk \in DbIds(table)
        THEN {IF row.so_pk = r.so_pk THEN [row EXCEPT !.amount = r.amount] ELSE row : row \in table}
        ELSE table \cup {r}

\* part_001: INSERT ... ON CONFLICT (so_pk) DO NOTHING
InsertPart1(table, so) ==
    IF so.so_pk \in DbIds(table) THEN table ELSE table \cup {so}

\* SELECT * FROM sales_orders: the rows in key order.  The column is named
\* customer_name, so a loaded row has no customer field.
RECURSIVE RowsOf(_)
RowsOf(table) ==
    IF table = {} THEN <<>>
    ELSE LET row == CHOOSE r \in table : \A q \in table : r.so_pk <= q.so_pk
         IN  <<[row EXCEPT !.customer = "undefined"]>> \o RowsOf(table \ {row})

-----------------------------------------------------------------------------
(* JavaScript values, as the normalizer and the query engine meet them.    *)
(* A number is kept in tenths (55.5 is 555); a string is the sequence of   *)
(* its characters, or of its words where only equality is asked of it.     *)

JsUndef == [t |-> "undefined", n |-> 0, s |-> <<>>]
JsNull == [t |-> "null", n |-> 0, s |-> <<>>]
JsNaN == [t |-> "NaN", n |-> 0, s |-> <<>>]
JsNegInf == [t |-> "-Infinity", n |-> 0, s |-> <<>>]
JsNum(v) == [t |-> "number", n |-> v, s |-> <<>>]
JsStr(cs) == [t |-> "string", n |-> 0, s |-> cs]
JsArr(items) == [t |-> "array", n |-> 0, s |-> items]
\* a string of one word
Word(w) == JsStr(<<w>>)

\* ToBoolean
Truthy(v) ==
    \/ v.t = "number" /\ v.n # 0
    \/ v.t = "string" /\ v.s # <<>>
    \/ v.t = "-Infinity"
    \/ v.t = "array"
    \/ v.t = "object"

\* a || b
JsOr(a, b) == IF Truthy(a) THEN a ELSE b

Digits == <<"0", "1", "2", "3", "4", "5", "6", "7", "8", "9">>
DigitSet == {Digits[d] : d \in DOMAIN Digits}
DigitVal(c) == (CHOOSE d \in DOMAIN Digits : Digits[d] = c) - 1

\* the number of decimal digits of cs from position i on
RECURSIVE RunLen(_, _)
RunLen(cs, i) ==
    IF i > Len(cs) \/ cs[i] \notin DigitSet THEN 0 ELSE 1 + RunLen(cs, i + 1)

\* the value of the len digits of cs from position i on
RECURSIVE RunVal(_, _, _)
RunVal(cs, i, len) ==
    IF len = 0 THEN 0 ELSE RunVal(cs, i, len - 1) * 10 + DigitVal(cs[i + len - 1])

\* the decimal literal at the head of cs: sign, integer digits, fraction digits
Literal(cs) ==
    LET neg == Len(cs) >= 1 /\ cs[1] = "-"
        st == IF neg THEN 2 ELSE 1
        il == RunLen(cs, st)
        dot == st + il <= Len(cs) /\ cs[st + il] = "."
        fl == IF dot THEN RunLen(cs, st + il + 1) ELSE 0
        tenths == RunVal(cs, st, il) * 10 + (IF fl >= 1 THEN DigitVal(cs[st + il + 1]) ELSE 0)
    IN  [digits |-> il + fl,
         used |-> (st - 1) + il + (IF dot THEN 1 + fl ELSE 0),
         value |-> IF neg THEN 0 - tenths ELSE tenths]

\* parseFloat(string): the longest decimal literal at the head, NaN without one
parseFloat(cs) ==
    IF Literal(cs).digits = 0 THEN JsNaN ELSE JsNum(Literal(cs).value)

\* Number(value): a string must be a decimal literal as a whole; "" is 0
Number(v) ==
    CASE v.t = "number" -> v
      [] v.t = "null" -> JsNum(0)
      [] v.t = "string" ->
            IF v.s = <<>> THEN JsNum(0)
            ELSE IF Literal(v.s).digits > 0 /\ Literal(v.s).used = Len(v.s)
                    THEN JsNum(Literal(v.s).value) ELSE JsNaN
      [] OTHER -> JsNaN

\* the decimal digits of a natural number
RECURSIVE NatChars(_)
NatChars(k) ==
    IF k < 10 THEN <<Digits[k + 1]>> ELSE NatChars(k \div 10) \o <<Digits[(k % 10) + 1]>>

\* value.toString()
toString(v) ==
    CASE v.t = "string" -> v.s
      [] v.t = "number" ->
            LET a == IF v.n < 0 THEN 0 - v.n ELSE v.n
            IN  (IF v.n < 0 THEN <<"-">> ELSE <<>>)
                \o NatChars(a \div 10)
                \o (IF a % 10 = 0 THEN <<>> ELSE <<".", Digits[(a % 10) + 1]>>)
      [] OTHER -> <<v.t>>

\* string.replace(c, ""): a string pattern replaces the first match only
RECURSIVE replace(_, _)
replace(cs, c) ==
    IF cs = <<>> THEN <<>>
    ELSE IF Head(cs) = c THEN Tail(cs) ELSE <<Head(cs)>> \o replace(Tail(cs), c)

\* string.replace(/c/g, ""): every match is removed
replaceAll(cs, c) == SelectSeq(cs, LAMBDA x : x # c)

-----------------------------------------------------------------------------
(* summarizeERPData on one record, every field.  An object is a function   *)
(* from field names to values; an absent field is undefined.               *)

RawFields ==
    {"so_pk", "so_upk", "TotalAmount_TransH", "gpRate", "Status_TransH",
     "Name_Dept", "Name_Empl", "Name_Cust", "DateCreated_TransH", "Memo_TransH",
     "ContractDescription_TransH"}
Fields ==
    RawFields \cup {"so_number", "amount", "gp_rate", "status", "division",
                    "salesRep", "customer", "date", "date_created", "memo",
                    "contract_description"}

Unknown == JsStr(<<"Unknown">>)

\* gpRate of index.js and part_000; part_001 reads so.gpRate || 0 instead
gpRateOf(v, fallback) ==
    parseFloat(replace(replace(toString(JsOr(v, fallback)), "%"), ","))

\* index.js and part_000: { ...so, division, salesRep, amount, gpRate, status, date, so_number }
summarizeFile(so) ==
    [f \in Fields |->
        CASE f = "division" -> JsOr(so["Name_Dept"], Unknown)
          [] f = "salesRep" -> JsOr(so["Name_Empl"], Unknown)
          [] f = "amount" -> Number(JsOr(so["TotalAmount_TransH"], JsNum(0)))
          [] f = "gpRate" -> gpRateOf(so["gpRate"], JsStr(<<"0">>))
          [] f = "status" -> so["Status_TransH"]
          [] f = "date" -> so["DateCreated_TransH"]
          [] f = "so_number" -> JsOr(so["so_upk"], Unknown)
          [] OTHER -> so[f]]

\* part_001: only the eleven named fields; the upstream names are dropped
summarizePart1(so) ==
    [f \in Fields |->
        CASE f = "so_pk" -> so["so_pk"]
          [] f = "so_number" -> JsOr(so["so_upk"], Unknown)
          [] f = "date_created" -> JsOr(so["DateCreated_TransH"], JsNull)
          [] f = "amount" -> Number(JsOr(so["TotalAmount_TransH"], JsNum(0)))
          [] f = "gp_rate" -> gpRateOf(so["gpRate"], JsNum(0))
          [] f = "status" -> JsOr(so["Status_TransH"], Unknown)
          [] f = "division" -> JsOr(so["Name_Dept"], Unknown)
          [] f = "salesRep" -> JsOr(so["Name_Empl"], Unknown)
          [] f = "customer" -> JsOr(so["Name_Cust"], Unknown)
          [] f = "contract_description" -> JsOr(so["ContractDescription_TransH"], JsStr(<<>>))
          [] f = "memo" -> JsOr(so["Memo_TransH"], JsStr(<<>>))
          [] OTHER -> JsUndef]

summarize(v, so) == IF v = "part1" THEN summarizePart1(so) ELSE summarizeFile(so)

\* the name of the GP-rate field of a normalized record
GpField(v) == IF v = "part1" THEN "gp_rate" ELSE "gpRate"

\* an upstream record: the fields it has, the others absent
Obj(known) == [f \in Fields |-> IF f \in DOMAIN known THEN known[f] ELSE JsUndef]

Chars1000 == <<"1", "0", "0", "0">>
CharsGrouped == <<"1", ",", "0", "0", "0">>
CharsPercent == <<"5", "5", ".", "5", "%">>
CharsMillions == <<"1", ",", "2", "3", "4", ",", "5", "6", "7", "%">>
CharsNA == <<"N", "/", "A">>

\* what the upstream sends as TotalAmount_TransH and as gpRate
RawAmounts == {JsUndef, JsNum(10000), JsStr(Chars1000), JsStr(CharsGrouped), JsStr(CharsNA)}
RawGpRates == {JsUndef, JsNum(550), JsStr(CharsPercent), JsStr(CharsMillions), JsStr(CharsNA)}
RawTexts == {JsUndef, JsStr(<<"Acme">>)}

RawRecords ==
    { Obj([so_pk |-> JsNum(10), so_upk |-> upk, TotalAmount_TransH |-> amt, gpRate |-> gp,
           Name_Cust |-> txt, Name_Dept |-> txt, Name_Empl |-> txt, Status_TransH |-> txt,
           DateCreated_TransH |-> IF txt = JsUndef THEN JsUndef ELSE JsStr(<<"2024-03-01">>)]) :
        upk \in {JsUndef, JsStr(<<"SO-1">>)}, amt \in RawAmounts, gp \in RawGpRates,
        txt \in RawTexts }

-----------------------------------------------------------------------------
(* parseQuestionWithGPT: from the translator's output to the descriptor    *)

DescFields ==
    {"intent", "date", "year", "gpThreshold", "customer", "salesRep", "status", "topN",
     "fields"}

\* an object of the translator: the fields it has, the others absent
Desc(known) == [f \in DescFields |-> IF f \in DOMAIN known THEN known[f] ELSE JsUndef]

\* the descriptor of the catch block of index.js and part_000
DefaultDescriptor ==
    [f \in DescFields |->
        CASE f = "intent" -> Word("general")
          [] f = "fields" -> JsArr(<<>>)
          [] OTHER -> JsNull]

\* the descriptor of the catch block of part_001: { intent: "general" }
FailedDescriptor(v) ==
    IF v = "part1" THEN Desc([intent |-> Word("general")]) ELSE DefaultDescriptor

\* the defaults without the line for intent
Defaulted_KeepIntent(o) ==
    [f \in DescFields |->
        CASE f = "intent" -> o[f]
          [] f = "fields" -> IF Truthy(o[f]) THEN o[f] ELSE JsArr(<<>>)
          [] OTHER -> JsOr(o[f], JsNull)]

\* the defaults applied to an object the translator returned
Defaulted(o) ==
    [f \in DescFields |->
        CASE f = "intent" -> IF Truthy(o[f]) THEN o[f] ELSE Word("general")
          [] f = "fields" -> IF Truthy(o[f]) THEN o[f] ELSE JsArr(<<>>)
          [] OTHER -> JsOr(o[f], JsNull)]

\* parseQuestionWithGPT.  out.kind is "throws" (the call rejects), "notjson"
\* (JSON.parse throws) or "json"; a JSON value is null, a number or an object.
\* Reading a property of null throws; index.js and part_001 assign
\* parsed.intent, which throws on a number in module (strict) code, part_000
\* only reads.
parseQuestionWithGPT(v, out) ==
    IF out.kind # "json" \/ out.shape = "null" THEN FailedDescriptor(v)
    ELSE IF out.shape = "number"
            THEN IF v = "part0" THEN DefaultDescriptor ELSE FailedDescriptor(v)
            ELSE Defaulted(out.obj)

-----------------------------------------------------------------------------
(* filterOrders *)

Date(y, m, d) == JsStr(y \o <<"-">> \o m \o <<"-">> \o d)

LowerWord(w) ==
    CASE w = "Acme" -> "acme"
      [] w = "Apex" -> "apex"
      [] w = "Bolt" -> "bolt"
      [] w = "Cora" -> "cora"
      [] w = "Ana" -> "ana"
      [] w = "Ben" -> "ben"
      [] w = "BILLED" -> "billed"
      [] w = "CANCELLED" -> "cancelled"
      [] w = "Unknown" -> "unknown"
      [] w = "September" -> "september"
      [] OTHER -> w

\* string.toLowerCase()
toLowerCase(v) == JsStr([i \in DOMAIN v.s |-> LowerWord(v.s[i])])

\* string.startsWith(prefix)
startsWith(cs, prefix) ==
    Len(prefix) <= Len(cs) /\ SubSeq(cs, 1, Len(prefix)) = prefix

\* string.includes(part)
includes(cs, part) ==
    \E i \in 0..Len(cs) : i + Len(part) <= Len(cs) /\ SubSeq(cs, i + 1, i + Len(part)) = part

\* the field a filter reads, by variant
CustField(v) == IF v = "part1" THEN "customer" ELSE "Name_Cust"
DateField(v) == CASE v = "index" -> "DateCreated_TransH" [] v = "part0" -> "date" [] OTHER -> "date_created"
StatusField(v) == IF v = "index" THEN "Status_TransH" ELSE "status"
RepFilterField(v) == IF v = "index" THEN "Name_Empl" ELSE "salesRep"

\* the other fields the customer filter of index.js and part_000 searches
MemoField(v) == IF v = "part1" THEN "memo" ELSE "Memo_TransH"
ContractField(v) == IF v = "part1" THEN "contract_description" ELSE "ContractDescription_TransH"

FieldOf(v, step) ==
    CASE step = "customer" -> CustField(v)
      [] step = "gpThreshold" -> GpField(v)
      [] step = "salesRep" -> RepFilterField(v)
      [] step = "status" -> StatusField(v)
      [] OTHER -> DateField(v)

\* the filters of filterOrders, in the order of the source
FilterSteps(v) ==
    CASE v = "index" -> <<"customer", "gpThreshold", "date", "year">>
      [] v = "part0" -> <<"customer", "gpThreshold", "salesRep", "year", "date", "status">>
      [] OTHER -> <<"customer", "salesRep", "status", "date", "year">>

\* the filters index.js applies inside formatResponse; "september" is the one
\* it applies when the question mentions september 2025
FormatSteps(v) ==
    IF v = "index" THEN <<"salesRep", "year", "date", "september", "status">> ELSE <<>>

\* { operator, value } of a gpThreshold; value in tenths
Threshold(operator, value) == [t |-> "object", n |-> value, s |-> <<operator>>]

\* switch (operator) of the gpThreshold filter, on o.gpRate = x
Compare(x, threshold) ==
    LET operator == IF threshold.t = "object" THEN threshold.s[1] ELSE "undefined"
        value == threshold.n
    IN  CASE operator = ">" -> x.t = "number" /\ x.n > value
          [] operator = "<" -> x.t = "number" /\ x.n < value
          [] operator = ">=" -> x.t = "number" /\ x.n >= value
          [] operator = "<=" -> x.t = "number" /\ x.n <= value
          [] operator = "=" -> x.t = "number" /\ x.n = value
          [] OTHER -> TRUE

September2025 == <<"2", "0", "2", "5", "-", "0", "9">>

Missing(x) == x.t \in {"undefined", "null"}

\* the callback of a filter throws a TypeError (RangeError for the date of part_001)
StepThrows(v, step, o) ==
    CASE step \in {"gpThreshold", "september"} -> FALSE
      [] step = "year" -> v # "part1" /\ Missing(o[DateField(v)])
      [] step = "date" -> v = "part1" /\ o[DateField(v)].t = "undefined"
      [] OTHER -> v = "part1" /\ Missing(o[FieldOf(v, step)])

\* the callback of a filter keeps the record
StepKeeps(v, step, o, d) ==
    LET x == o[FieldOf(v, step)]
        kw == toLowerCase(d[step]).s
    IN  CASE step = "customer" ->
                \/ includes(toLowerCase(JsOr(x, JsStr(<<>>))).s, kw)
                \/ /\ v # "part1"
                   /\ \/ includes(toLowerCase(JsOr(o[ContractField(v)], JsStr(<<>>))).s, kw)
                      \/ includes(toLowerCase(JsOr(o[MemoField(v)], JsStr(<<>>))).s, kw)
          [] step = "gpThreshold" -> Compare(x, d[step])
          [] step = "september" -> x.t = "string" /\ startsWith(x.s, September2025)
          [] step = "year" ->
                x.t = "string" /\ startsWith(x.s, d[step].s)
          [] step = "date" -> x = d[step]
          [] OTHER -> toLowerCase(JsOr(x, JsStr(<<>>))) = toLowerCase(d[step])

\* the filters of steps that the descriptor asks for, one after the other; an
\* exception in a callback leaves the whole function
RECURSIVE RunFilters(_, _, _, _)
RunFilters(v, steps, d, orders) ==
    IF steps = <<>> THEN [threw |-> FALSE, orders |-> orders]
    ELSE IF ~Truthy(d[Head(steps)]) THEN RunFilters(v, Tail(steps), d, orders)
    ELSE IF \E i \in DOMAIN orders : StepThrows(v, Head(steps), orders[i])
            THEN [threw |-> TRUE, orders |-> <<>>]
            ELSE RunFilters(v, Tail(steps), d,
                            SelectSeq(orders, LAMBDA o : StepKeeps(v, Head(steps), o, d)))

filterOrders(v, orders, parsed) == RunFilters(v, FilterSteps(v), parsed, orders)

-----------------------------------------------------------------------------
(* formatResponse *)

contextLimit == 200

\* a + b on numbers; NaN when either is NaN
JsAdd(a, b) ==
    IF a.t = "number" /\ b.t = "number" THEN JsNum(a.n + b.n) ELSE JsNaN

\* orders.reduce((sum, o) => sum + term(o), 0); index.js adds o.amount || 0
RECURSIVE totalAmount(_, _)
totalAmount(v, orders) ==
    IF orders = <<>> THEN JsNum(0)
    ELSE LET o == orders[Len(orders)]
             term == IF v = "index" THEN JsOr(o["amount"], JsNum(0)) ELSE o["amount"]
         IN  JsAdd(totalAmount(v, SubSeq(orders, 1, Len(orders) - 1)), term)

\* Math.max(...values): -Infinity of nothing, NaN when a value is NaN
RECURSIVE MathMax(_)
MathMax(values) ==
    IF values = <<>> THEN JsNegInf
    ELSE LET rest == MathMax(Tail(values))
             x == Head(values)
         IN  IF x.t # "number" \/ rest.t = "NaN" THEN JsNaN
             ELSE IF rest.t = "-Infinity" \/ x.n >= rest.n THEN x ELSE rest

\* Math.max(...orders.map(o => o.gpRate)); index.js takes o.gpRate || 0
highestGp(v, orders) ==
    MathMax([i \in DOMAIN orders |->
                IF v = "index" THEN JsOr(orders[i][GpField(v)], JsNum(0))
                ELSE orders[i][GpField(v)]])

\* the map of a top-N intent after forEach: one entry per key in the order of
\* first appearance, map[key] = (map[key] || 0) + o.amount
RECURSIVE GroupSums(_, _)
GroupSums(orders, field) ==
    IF orders = <<>> THEN <<>>
    ELSE LET before == GroupSums(SubSeq(orders, 1, Len(orders) - 1), field)
             o == orders[Len(orders)]
         IN  IF \E i \in DOMAIN before : before[i].key = o[field]
                THEN [i \in DOMAIN before |->
                        IF before[i].key = o[field]
                            THEN [before[i] EXCEPT !.amt = JsAdd(JsOr(@, JsNum(0)), o["amount"])]
                            ELSE before[i]]
                ELSE Append(before, [key |-> o[field], amt |-> JsAdd(JsNum(0), o["amount"])])

\* the comparator (a, b) => b[1] - a[1] says a comes after b; NaN counts as 0
Descending(a, b) == a.amt.t = "number" /\ b.amt.t = "number" /\ b.amt.n - a.amt.n > 0

\* the comparator ([a], [b]) => a.localeCompare(b) says a comes after b
RECURSIVE LexAfter(_, _)
LexAfter(a, b) ==
    LET rank(c) == IF c \in DigitSet THEN DigitVal(c) + 1 ELSE 0
    IN  IF a = <<>> THEN FALSE
        ELSE IF b = <<>> THEN TRUE
        ELSE IF Head(a) # Head(b) THEN rank(Head(a)) > rank(Head(b))
        ELSE LexAfter(Tail(a), Tail(b))
Ascending(a, b) == LexAfter(a.key.s, b.key.s)

\* what the comparator of the sort says: by "amount" or by "month"
After(by, a, b) == IF by = "amount" THEN Descending(a, b) ELSE Ascending(a, b)

\* e put into a sorted sequence: before the elements that come after it, and
\* after every element it is equal to (the sort is stable)
RECURSIVE Insert(_, _, _)
Insert(sorted, e, by) ==
    IF sorted # <<>> /\ After(by, sorted[Len(sorted)], e)
        THEN Append(Insert(SubSeq(sorted, 1, Len(sorted) - 1), e, by), sorted[Len(sorted)])
        ELSE Append(sorted, e)

\* Array.prototype.sort(comparator)
RECURSIVE sort(_, _)
sort(entries, by) ==
    IF entries = <<>> THEN <<>>
    ELSE Insert(sort(SubSeq(entries, 1, Len(entries) - 1), by), entries[Len(entries)], by)

\* array.slice(0, k)
slice(xs, k) == SubSeq(xs, 1, IF k < Len(xs) THEN k ELSE Len(xs))

\* sorted.slice(0, parsed.topN || 1) with the rank i + 1 of each line
topLines(entries, parsed) ==
    LET shown == slice(sort(entries, "amount"), JsOr(parsed["topN"], JsNum(10)).n \div 10)
    IN  [i \in DOMAIN shown |-> [rank |-> i, key |-> shown[i].key, amt |-> shown[i].amt]]

\* the field a top-N intent groups by
GroupField(v, intent) ==
    CASE intent = Word("topCustomers") -> CustField(v)
      [] intent = Word("topDivision") -> "division"
      [] OTHER -> "salesRep"

validStatuses ==
    {<<"BILLED">>, <<"PARTIALLYBILLED/PARTIALLY DELIVERED">>, <<"PARTIALLY DELIVERED">>,
     <<"PENDING BILLING">>, <<"PENDING DELIVERY">>, <<"JO IN-PROCESS">>}

\* the records monthlyTotals adds up: a date, an allowed status, the asked rep
monthlyOrders(v, orders, parsed) ==
    LET dateOf(o) == IF v = "index" THEN o["date"] ELSE o["date_created"]
    IN  SelectSeq(orders, LAMBDA o :
            /\ Truthy(dateOf(o))
            /\ o[StatusField(v)].s \in validStatuses
            /\ toLowerCase(o["salesRep"]) = toLowerCase(parsed["salesRep"]))

\* the same records with key o.date.slice(0, 7)
monthKeyed(v, orders) ==
    [i \in DOMAIN orders |->
        [f \in Fields \cup {"month"} |->
            IF f = "month"
                THEN JsStr(slice((IF v = "index" THEN orders[i]["date"]
                                  ELSE orders[i]["date_created"]).s, 7))
                ELSE orders[i][f]]]

monthLines(v, orders, parsed) ==
    LET shown == sort(GroupSums(monthKeyed(v, monthlyOrders(v, orders, parsed)), "month"),
                      "month")
    IN  [i \in DOMAIN shown |-> [rank |-> i, key |-> shown[i].key, amt |-> shown[i].amt]]

TopIntents == {Word("topCustomers"), Word("topDivision"), Word("topSales")}

NoResult ==
    [kind |-> "none", set |-> <<>>, n |-> 0, total |-> JsNum(0), gp |-> JsNum(0),
     lines |-> <<>>, context |-> <<>>, text |-> "none"]

\* question.toLowerCase().includes("september 2025"); a question is its words
mentionsSeptember(question) ==
    includes(toLowerCase(question).s, <<"september", "2025">>)

\* what the filters of formatResponse go by: the descriptor, and the question
\* for the september filter
Asked(parsed, question) ==
    [f \in DescFields \cup {"september"} |->
        IF f = "september"
            THEN (IF mentionsSeptember(question) THEN question ELSE JsUndef)
            ELSE parsed[f]]

\* formatResponse up to its return or to its call of the answerer.  kind is
\*   "answerer"  the question alone goes to the free-text answerer (general)
\*   "nomatch"   the fixed message for no order
\*   "count", "list", "sample", "top", "monthly", "nomonth"
\*   "fallback"  the question and filtered.slice(0, 200) go to the answerer
\*   "notimpl"   the fixed message "Intent not implemented"
\* and set is the filtered set the intent ran on.
formatResponse(v, orders, parsed, question) ==
    LET intent == parsed["intent"]
        filtered == RunFilters(v, FormatSteps(v), Asked(parsed, question), orders).orders
        on == [NoResult EXCEPT !.set = filtered]
    IN  IF intent = Word("general") THEN [NoResult EXCEPT !.kind = "answerer"]
        ELSE IF orders = <<>> THEN [NoResult EXCEPT !.kind = "nomatch"]
        ELSE IF intent = Word("count")
            THEN [on EXCEPT !.kind = "count", !.n = Len(filtered),
                            !.total = totalAmount(v, filtered),
                            !.gp = highestGp(v, filtered)]
        ELSE IF intent = Word("list") THEN [on EXCEPT !.kind = "list"]
        ELSE IF intent = Word("sample") /\ v # "part1"
            THEN [on EXCEPT !.kind = IF filtered = <<>> THEN "nomatch" ELSE "sample"]
        ELSE IF intent \in TopIntents
            THEN [on EXCEPT !.kind = "top",
                            !.lines = topLines(GroupSums(filtered, GroupField(v, intent)), parsed)]
        ELSE IF /\ intent = Word("monthlyTotals") /\ v # "part0"
                /\ Truthy(parsed["year"]) /\ Truthy(parsed["salesRep"])
            THEN LET lines == monthLines(v, filtered, parsed)
                 IN  [on EXCEPT !.kind = IF lines = <<>> THEN "nomonth" ELSE "monthly",
                                !.lines = lines]
        ELSE IF v = "index"
            THEN [on EXCEPT !.kind = "fallback", !.context = slice(filtered, contextLimit)]
            ELSE [on EXCEPT !.kind = "notimpl"]

\* the kinds of result that await the answerer
Awaits == {"answerer", "fallback"}

-----------------------------------------------------------------------------
(* POST /chatbot and POST /reset-memory: the responses *)

\* the handler without its catch block: the error is what the caller gets
Respond_LeakError(err, answer) ==
    [status |-> IF err = "none" THEN 200 ELSE 500, type |-> "text", data |-> answer,
     error |-> err]

\* res.json({ type: "text", data: answer }) or, from the catch block,
\* res.status(500).json({ error: "Chatbot failed" })
Respond(err, answer) ==
    IF err = "none"
        THEN [status |-> 200, type |-> "text", data |-> answer, error |-> "none"]
        ELSE [status |-> 500, type |-> "none", data |-> NoResult, error |-> "Chatbot failed"]

\* a reset that clears the set
resetMemory_Clear(mem) == <<>>

\* the in-memory set after POST /reset-memory: the handler does not touch it
resetMemory(mem) == mem

\* a question that names no month
PlainQuestion == JsStr(<<"how", "many", "orders">>)

NoOutcome == [kind |-> "none", shape |-> "none", obj |-> Desc(<<>>)]

NoChat ==
    [pc |-> "idle", answerer |-> "ok", tr |-> NoOutcome, parsed |-> DefaultDescriptor,
     orders |-> <<>>, result |-> NoResult, err |-> "none", resp |-> <<>>, resets |-> 0,
     question |-> PlainQuestion]

NoNorm == [pc |-> "idle", x |-> Obj(<<>>), once |-> Obj(<<>>), twice |-> Obj(<<>>)]

-----------------------------------------------------------------------------
(* fetchAllSalesOrders against every body the ERP API can answer with.  A  *)
(* body has a shape: "null", "number" (a JSON number), "nodata" (an object *)
(* without data), "scalar" (data is a number), "text" (data is a string)   *)
(* or "data" (data is an array); data holds the string, or the elements of *)
(* the array, as JavaScript values.                                        *)

\* how many sales orders the upstream holds for a year, at most
MaxRecords == 1001
\* how many answers of the upstream one call of fetchAllSalesOrders is followed through
MaxPages == 3

\* an object; n tells one object from another
JsObj(k) == [t |-> "object", n |-> k, s |-> <<>>]

\* the k-th sales order of the year's listing upstream
SalesOrder(k) == JsObj(k)

\* the sales orders from..to of the listing
Listing(from, to) == [i \in 1..(to - from + 1) |-> SalesOrder(from + i - 1)]

Reply(kind, shape, data) == [kind |-> kind, body |-> [shape |-> shape, data |-> data]]

\* a page of k sales orders at the offset asked for
PageReply(offset, k) == Reply("json", "data", <<JsArr(Listing(offset + 1, offset + k))>>)

\* an upstream that holds n sales orders and honours limit and offset
HonestReply(n, offset) ==
    PageReply(offset, IF n - offset >= limit THEN limit
                      ELSE IF n > offset THEN n - offset ELSE 0)

\* every answer to one request: failures, bodies without a page, pages
AnyReplies(offset) ==
    { Reply("reject", "none", <<>>),
      Reply("unparsable", "none", <<>>),
      Reply("json", "null", <<>>),
      Reply("json", "number", <<>>),
      Reply("json", "nodata", <<>>),
      Reply("json", "scalar", <<>>),
      Reply("json", "text", <<JsStr(CharsNA)>>),
      Reply("json", "data", <<>>),
      Reply("json", "data", <<JsNull>>),
      Reply("json", "data", <<JsNum(50)>>),
      Reply("json", "data", <<JsStr(CharsNA)>>),
      Reply("json", "data", <<JsObj(0)>>) }
    \cup { PageReply(offset, k) : k \in {0, 1, limit - 1, limit, limit + 1} }

\* soList.length < limit with a free limit
shortPage_Inclusive(v) == v.t \in {"array", "string"} /\ Len(v.s) <= limit

\* soList.length < limit: the length of a number or of an object is undefined,
\* and undefined < limit is false
shortPage(v) == v.t \in {"array", "string"} /\ Len(v.s) < limit

\* res.data?.[0] || [] on a body that is not null
soListIn(res) ==
    LET first == CASE res.shape = "data" /\ Len(res.data) >= 1 -> res.data[1]
                   [] res.shape = "text" -> JsStr(<<res.data[1].s[1]>>)
                   [] OTHER -> JsUndef
    IN  JsOr(first, JsArr(<<>>))

\* allData.concat(soList): an array is spread, any other value is appended
concat(allData, v) == IF v.t = "array" THEN allData \o v.s ELSE Append(allData, v)

NoReply == Reply("none", "none", <<>>)

NoPaging ==
    [pc |-> "idle", honest |-> FALSE, n |-> 0, year |-> startYear, offset |-> 0,
     allData |-> <<>>, rawData |-> <<>>, requests |-> <<>>, replies |-> <<>>,
     err |-> "none"]

-----------------------------------------------------------------------------
(* One invocation of preloadERPData *)

NoPass ==
    [pc |-> "idle", year |-> startYear, allData |-> <<>>, offset |-> 0,
     rawData |-> <<>>, batch |-> <<>>, i |-> 0, err |-> "none",
     lastFetch |-> "none", seen |-> {}, startMem |-> <<>>]

\* the awaits of a pass: the ERP round trip, and the store round trips of a merge
MergePcs == {"query", "upsert", "connect", "insert"}
InFlightPcs == {"fetch"} \cup MergePcs
InFlight(p) == pass[p].pc \in InFlightPcs
Free(p) == ~InFlight(p)

\* preloadERPData is called: the year loop starts and the first page is requested
StartPass(mem) == [NoPass EXCEPT !.pc = "fetch", !.startMem = mem]

\* the end of one iteration of the year loop
AdvanceYear(ps, mem) ==
    IF ps.year < CurrentYear
        THEN [ps EXCEPT !.pc = "fetch", !.year = @ + 1, !.allData = <<>>, !.offset = 0,
                        !.batch = <<>>, !.i = 0]
        ELSE [NoPass EXCEPT !.pc = "done", !.year = CurrentYear + 1,
                            !.lastFetch = ps.lastFetch]

\* an exception leaves preloadERPData: the promise of the pass is rejected
Abort(ps, why) ==
    [NoPass EXCEPT !.pc = "aborted", !.err = why]

\* part_001 registers the timer after the startup pass has returned
ProcAfter(p, ps) ==
    IF variant = "part1" /\ proc = "startup" /\ p = 1 /\ ps.pc = "done"
        THEN "running" ELSE proc

Init ==
    /\ variant \in Variants
    /\ proc = "boot"
    /\ allERPData = <<>>
    /\ dataFile = <<>>
    /\ db = {}
    /\ pass = [p \in Slots |-> NoPass]
    /\ req = [pc |-> "idle", view |-> <<>>, during |-> {}]
    /\ dbFailures = 0
    /\ fires = 0
    /\ restarts = 0
    /\ chat = NoChat
    /\ norm = NoNorm
    /\ paging = NoPaging

-----------------------------------------------------------------------------
(* fetchAllSalesOrders and the call of mergeNewData that follows it *)

\* how the last call of callERP went, as the pass remembers it
Outcome(resp) == IF resp.kind \in FetchFailures THEN "failed" ELSE "ok"

\* the pass after the last page of its year has arrived: rawData is complete
Fetched(ps, resp) ==
    LET soList == soListOf(callERP(resp).value)
    IN  [ps EXCEPT !.rawData = ps.allData \o soList,
                   !.allData = <<>>,
                   !.lastFetch = Outcome(resp),
                   !.seen = @ \cup Ids(soList)]

\* index.js mergeNewData up to its first await: the first db.query is issued,
\* or, for an empty batch, the loop is skipped and the batch replaces the set
MergeStartIndex(p, ps) ==
    LET newData == summarizeERPData(ps.rawData)
    IN  IF newData = <<>>
            THEN /\ allERPData' = MergeIndex(allERPData, newData)
                 /\ dataFile' = allERPData'
                 /\ pass' = [pass EXCEPT ![p] = AdvanceYear(ps, allERPData')]
            ELSE /\ pass' = [pass EXCEPT ![p] = [ps EXCEPT !.pc = "query", !.batch = newData, !.i = 1]]
                 /\ UNCHANGED <<allERPData, dataFile>>

\* part_000 mergeNewData (no await inside), then upsertSalesOrders(rawData)
\* up to its first db.query
MergeStartPart0(p, ps) ==
    LET newData == summarizeERPData(ps.rawData)
    IN  /\ allERPData' = MergePart0(allERPData, newData)
        /\ dataFile' = allERPData'
        /\ pass' = [pass EXCEPT ![p] =
                        IF ps.rawData = <<>>
                            THEN AdvanceYear(ps, allERPData')
                            ELSE [ps EXCEPT !.pc = "upsert", !.batch = ps.rawData, !.i = 1]]

\* a merge that computes the identities already present when the pass starts,
\* with the awaits of the fetch between that and the append
MergeStartPart1_Stale(p, ps) ==
    LET newData == summarizeERPData(ps.rawData)
        filteredNew == FilteredNew(ps.startMem, newData)
    IN  /\ UNCHANGED dataFile
        /\ IF Len(filteredNew) = 0
              THEN /\ pass' = [pass EXCEPT ![p] = AdvanceYear(ps, allERPData)]
                   /\ UNCHANGED allERPData
              ELSE /\ allERPData' = allERPData \o filteredNew
                   /\ pass' = [pass EXCEPT ![p] = [ps EXCEPT !.pc = "connect", !.batch = filteredNew, !.i = 0]]

\* part_001 mergeNewData up to await pool.connect()
MergeStartPart1(p, ps) ==
    LET newData == summarizeERPData(ps.rawData)
        filteredNew == FilteredNew(allERPData, newData)
    IN  /\ UNCHANGED dataFile
        /\ IF Len(filteredNew) = 0
              THEN /\ pass' = [pass EXCEPT ![p] = AdvanceYear(ps, allERPData)]
                   /\ UNCHANGED allERPData
              ELSE /\ allERPData' = allERPData \o filteredNew
                   /\ pass' = [pass EXCEPT ![p] = [ps EXCEPT !.pc = "connect", !.batch = filteredNew, !.i = 0]]

\* mergeNewData as the variant at hand defines it
MergeStart(p, ps) ==
    CASE variant = "index" -> MergeStartIndex(p, ps)
      [] variant = "part0" -> MergeStartPart0(p, ps)
      [] variant = "part1" -> MergeStartPart1(p, ps)

\* One answer of callERP inside the paging loop of fetchAllSalesOrders.
\* upstream is the set of answers the ERP may give for the year of the pass.
FetchReturn(p, upstream) ==
    /\ proc # "down"
    /\ pass[p].pc = "fetch"
    /\ \E resp \in upstream :
         LET r == callERP(resp)
             soList == soListOf(r.value)
         IN  IF r.threw \/ r.value.shape = "null"
                THEN \* the exception leaves fetchAllSalesOrders and preloadERPData
                     /\ pass' = [pass EXCEPT ![p] =
                                    [Abort(pass[p], IF r.threw THEN "FetchError" ELSE "TypeError")
                                        EXCEPT !.lastFetch = Outcome(resp)]]
                     /\ UNCHANGED <<allERPData, dataFile>>
                ELSE IF Len(soList) >= limit
                THEN \* a full page: offset += limit and the next page is requested
                     /\ pass' = [pass EXCEPT ![p].allData = @ \o soList, ![p].offset = @ + limit,
                                             ![p].seen = @ \cup Ids(soList),
                                             ![p].lastFetch = "ok"]
                     /\ UNCHANGED <<allERPData, dataFile>>
                ELSE MergeStart(p, Fetched(pass[p], resp))
    /\ proc' = ProcAfter(p, pass'[p])
    /\ UNCHANGED <<paging, chat, norm, variant, db, req, dbFailures, fires, restarts>>

FetchReturnIndex(p) == variant = "index" /\ FetchReturn(p, Responses(pass[p].year))
FetchReturnPart0(p) == variant = "part0" /\ FetchReturn(p, Responses(pass[p].year))
FetchReturnPart1(p) == variant = "part1" /\ FetchReturn(p, Responses(pass[p].year))

-----------------------------------------------------------------------------
(* The store round trips of mergeNewData / upsertSalesOrders *)

CanFail == dbFailures < MaxDbFailures

\* index.js: db.query resolves for newData[i]; after the last record the batch
\* replaces the in-memory set and is written to the JSON backup
QueryOkIndex(p) ==
    /\ variant = "index" /\ proc # "down"
    /\ pass[p].pc = "query"
    /\ db' = UpsertIndex(db, pass[p].batch[pass[p].i])
    /\ IF pass[p].i < Len(pass[p].batch)
          THEN /\ pass' = [pass EXCEPT ![p].i = @ + 1]
               /\ UNCHANGED <<allERPData, dataFile>>
          ELSE /\ allERPData' = MergeIndex(allERPData, pass[p].batch)
               /\ dataFile' = allERPData'
               /\ pass' = [pass EXCEPT ![p] = AdvanceYear(pass[p], allERPData')]
    /\ UNCHANGED <<paging, chat, norm, variant, proc, req, dbFailures, fires, restarts>>

\* index.js: db.query rejects; nothing catches it
QueryFailIndex(p) ==
    /\ variant = "index" /\ proc # "down"
    /\ pass[p].pc = "query"
    /\ CanFail
    /\ dbFailures' = dbFailures + 1
    /\ pass' = [pass EXCEPT ![p] = Abort(pass[p], "StoreError")]
    /\ UNCHANGED <<paging, chat, norm, variant, proc, allERPData, dataFile, db, req, fires, restarts>>

\* part_000 upsertSalesOrders: db.query resolves for records[i]
UpsertOkPart0(p) ==
    /\ variant = "part0" /\ proc # "down"
    /\ pass[p].pc = "upsert"
    /\ db' = UpsertPart0(db, summarizeERPData(pass[p].batch)[pass[p].i])
    /\ pass' = [pass EXCEPT ![p] =
                    IF pass[p].i < Len(pass[p].batch)
                        THEN [pass[p] EXCEPT !.i = @ + 1]
                        ELSE AdvanceYear(pass[p], allERPData)]
    /\ UNCHANGED <<paging, chat, norm, variant, proc, allERPData, dataFile, req, dbFailures, fires, restarts>>

\* part_000 upsertSalesOrders: db.query rejects; nothing catches it
UpsertFailPart0(p) ==
    /\ variant = "part0" /\ proc # "down"
    /\ pass[p].pc = "upsert"
    /\ CanFail
    /\ dbFailures' = dbFailures + 1
    /\ pass' = [pass EXCEPT ![p] = Abort(pass[p], "StoreError")]
    /\ UNCHANGED <<paging, chat, norm, variant, proc, allERPData, dataFile, db, req, fires, restarts>>

\* part_001: pool.connect() resolves and the first INSERT is issued
ConnectOkPart1(p) ==
    /\ variant = "part1" /\ proc # "down"
    /\ pass[p].pc = "connect"
    /\ pass' = [pass EXCEPT ![p].pc = "insert", ![p].i = 1]
    /\ UNCHANGED <<paging, chat, norm, variant, proc, allERPData, dataFile, db, req, dbFailures, fires, restarts>>

\* part_001: pool.connect() rejects, outside the try block
ConnectFailPart1(p) ==
    /\ variant = "part1" /\ proc # "down"
    /\ pass[p].pc = "connect"
    /\ CanFail
    /\ dbFailures' = dbFailures + 1
    /\ pass' = [pass EXCEPT ![p] = Abort(pass[p], "StoreError")]
    /\ UNCHANGED <<paging, chat, norm, variant, proc, allERPData, dataFile, db, req, fires, restarts>>

\* part_001: client.query resolves for filteredNew[i]
InsertOkPart1(p) ==
    /\ variant = "part1" /\ proc # "down"
    /\ pass[p].pc = "insert"
    /\ db' = InsertPart1(db, pass[p].batch[pass[p].i])
    /\ pass' = [pass EXCEPT ![p] =
                    IF pass[p].i < Len(pass[p].batch)
                        THEN [pass[p] EXCEPT !.i = @ + 1]
                        ELSE AdvanceYear(pass[p], allERPData)]
    /\ proc' = ProcAfter(p, pass'[p])
    /\ UNCHANGED <<paging, chat, norm, variant, allERPData, dataFile, req, dbFailures, fires, restarts>>

\* part_001: client.query rejects; the catch around the loop logs it, the rest
\* of the batch is skipped and mergeNewData returns
InsertFailPart1(p) ==
    /\ variant = "part1" /\ proc # "down"
    /\ pass[p].pc = "insert"
    /\ CanFail
    /\ dbFailures' = dbFailures + 1
    /\ pass' = [pass EXCEPT ![p] = AdvanceYear(pass[p], allERPData)]
    /\ proc' = ProcAfter(p, pass'[p])
    /\ UNCHANGED <<paging, chat, norm, variant, allERPData, dataFile, db, req, fires, restarts>>

-----------------------------------------------------------------------------
(* Startup, the timer, the process *)

NoReq == [pc |-> "idle", view |-> <<>>, during |-> {}]

\* index.js, part_000: the callback of app.listen calls preloadERPData; the
\* timer was registered when the module was loaded
ListenFile ==
    /\ variant \in {"index", "part0"}
    /\ proc = "boot"
    /\ proc' = "running"
    /\ pass' = [pass EXCEPT ![1] = StartPass(allERPData)]
    /\ UNCHANGED <<paging, chat, norm, variant, allERPData, dataFile, db, req, dbFailures, fires, restarts>>

\* a callback of app.listen that calls preloadERPData without awaiting the load
ListenPart1_NoLoad ==
    /\ variant = "part1"
    /\ proc = "boot"
    /\ proc' = "startup"
    /\ pass' = [pass EXCEPT ![1] = StartPass(allERPData)]
    /\ UNCHANGED <<paging, chat, norm, variant, allERPData, dataFile, db, req, dbFailures, fires, restarts>>

\* part_001: the callback of app.listen awaits loadDataFromDB first
ListenPart1 ==
    /\ variant = "part1"
    /\ proc = "boot"
    /\ proc' = "loading"
    /\ UNCHANGED <<paging, chat, norm, variant, allERPData, dataFile, db, pass, req, dbFailures, fires, restarts>>

\* part_001 loadDataFromDB: the SELECT resolves, then preloadERPData is called
LoadOkPart1 ==
    /\ variant = "part1"
    /\ proc = "loading"
    /\ allERPData' = RowsOf(db)
    /\ proc' = "startup"
    /\ pass' = [pass EXCEPT ![1] = StartPass(allERPData')]
    /\ UNCHANGED <<paging, chat, norm, variant, dataFile, db, req, dbFailures, fires, restarts>>

\* part_001 loadDataFromDB: the SELECT rejects and the catch logs it
LoadFailPart1 ==
    /\ variant = "part1"
    /\ proc = "loading"
    /\ proc' = "startup"
    /\ pass' = [pass EXCEPT ![1] = StartPass(allERPData)]
    /\ UNCHANGED <<paging, chat, norm, variant, allERPData, dataFile, db, req, dbFailures, fires, restarts>>

\* setInterval(..., 60_000) fires: preloadERPData is called whatever the
\* earlier invocations are doing.  The new pass takes the lowest free slot.
TimerCallback ==
    /\ proc = "running"
    /\ \E p \in Slots :
         /\ Free(p)
         /\ \A q \in Slots : q < p => ~Free(q)
         /\ pass' = [pass EXCEPT ![p] = StartPass(allERPData)]
         /\ req' = [req EXCEPT !.during = @ \ {p}]
    /\ UNCHANGED <<paging, chat, norm, variant, proc, allERPData, dataFile, db, dbFailures, restarts>>

TimerFire ==
    /\ fires < MaxTimerFires
    /\ fires' = fires + 1
    /\ TimerCallback

\* the timer fires when the earlier pass has returned: every pass takes less
\* than the 60 s of the interval
TimerFireSerial ==
    /\ \A p \in Slots : Free(p)
    /\ fires < MaxTimerFires
    /\ fires' = fires + 1
    /\ TimerCallback

\* the timer fires, any number of times
TimerFireForever ==
    /\ fires' = fires
    /\ TimerCallback

\* The rejection of an aborted pass is handled nowhere: Node.js 15 and later
\* end the process on it, earlier versions only warn.
Crash ==
    /\ proc # "down"
    /\ \E p \in Slots : pass[p].pc = "aborted"
    /\ proc' = "down"
    /\ allERPData' = <<>>
    /\ pass' = [p \in Slots |-> NoPass]
    /\ req' = NoReq
    /\ UNCHANGED <<paging, chat, norm, variant, dataFile, db, dbFailures, fires, restarts>>

\* The process is started again: the module is loaded; index.js and part_000
\* read erpData.json into allERPData
Restart ==
    /\ proc = "down"
    /\ restarts < MaxRestarts
    /\ restarts' = restarts + 1
    /\ proc' = "boot"
    /\ allERPData' = IF variant \in {"index", "part0"} THEN dataFile ELSE <<>>
    /\ UNCHANGED <<paging, chat, norm, variant, dataFile, db, pass, req, dbFailures, fires>>

-----------------------------------------------------------------------------
(* POST /chatbot *)

\* the request arrives and awaits parseQuestionWithGPT
ChatbotArrive ==
    /\ proc \notin {"boot", "down"}
    /\ req.pc \in {"idle", "done"}
    /\ req' = [NoReq EXCEPT !.pc = "parse"]
    /\ UNCHANGED <<paging, chat, norm, variant, proc, allERPData, dataFile, db, pass, dbFailures, fires, restarts>>

\* the translator has answered: filterOrders(allERPData, parsed) reads the set
ChatbotFilter ==
    /\ proc # "down"
    /\ req.pc = "parse"
    /\ req' = [pc |-> "format", view |-> allERPData, during |-> {p \in Slots : InFlight(p)}]
    /\ UNCHANGED <<paging, chat, norm, variant, proc, allERPData, dataFile, db, pass, dbFailures, fires, restarts>>

\* formatResponse has returned and the response is sent
ChatbotRespond ==
    /\ proc # "down"
    /\ req.pc = "format"
    /\ req' = [req EXCEPT !.pc = "done"]
    /\ UNCHANGED <<paging, chat, norm, variant, proc, allERPData, dataFile, db, pass, dbFailures, fires, restarts>>

-----------------------------------------------------------------------------

PassStep(p) ==
    \/ FetchReturnIndex(p)
    \/ FetchReturnPart0(p)
    \/ FetchReturnPart1(p)
    \/ QueryOkIndex(p)
    \/ QueryFailIndex(p)
    \/ UpsertOkPart0(p)
    \/ UpsertFailPart0(p)
    \/ ConnectOkPart1(p)
    \/ ConnectFailPart1(p)
    \/ InsertOkPart1(p)
    \/ InsertFailPart1(p)

Next ==
    \/ ListenFile
    \/ ListenPart1
    \/ LoadOkPart1
    \/ LoadFailPart1
    \/ TimerFire
    \/ Crash
    \/ Restart
    \/ ChatbotArrive
    \/ ChatbotFilter
    \/ ChatbotRespond
    \/ \E p \in Slots : PassStep(p)

Spec == Init /\ [][Next]_vars

-----------------------------------------------------------------------------
(* Passes that never overlap: every pass returns within the interval.  No  *)
(* request, no restart.                                                    *)

SerialNext ==
    \/ ListenFile
    \/ ListenPart1
    \/ LoadOkPart1
    \/ LoadFailPart1
    \/ TimerFireSerial
    \/ PassStep(1)

SerialSpec == Init /\ [][SerialNext]_vars

-----------------------------------------------------------------------------
(* The process left running against an upstream that answers every request *)
(* and returns the same page for a year every time.  The timer fires for   *)
(* ever; store round trips fail at most MaxDbFailures times, so from some  *)
(* point on every write succeeds.                                          *)

SteadyResponses(y) ==
    { [kind |-> "json", body |-> [shape |-> "data", data |-> << <<Raw(y, 1, 10, "Acme")>> >>]] }

SteadyFetchIndex(p) == variant = "index" /\ FetchReturn(p, SteadyResponses(pass[p].year))
SteadyFetchPart0(p) == variant = "part0" /\ FetchReturn(p, SteadyResponses(pass[p].year))
SteadyFetchPart1(p) == variant = "part1" /\ FetchReturn(p, SteadyResponses(pass[p].year))

SteadyPassStep(p) ==
    \/ SteadyFetchIndex(p)
    \/ SteadyFetchPart0(p)
    \/ SteadyFetchPart1(p)
    \/ QueryOkIndex(p)
    \/ QueryFailIndex(p)
    \/ UpsertOkPart0(p)
    \/ UpsertFailPart0(p)
    \/ ConnectOkPart1(p)
    \/ ConnectFailPart1(p)
    \/ InsertOkPart1(p)
    \/ InsertFailPart1(p)

SteadyNext ==
    \/ ListenFile
    \/ ListenPart1
    \/ LoadOkPart1
    \/ LoadFailPart1
    \/ TimerFireForever
    \/ Crash
    \/ \E p \in Slots : SteadyPassStep(p)

\* setInterval keeps firing, and every round trip of a pass in flight comes
\* back, resolved or rejected
LiveSpec ==
    /\ Init
    /\ [][SteadyNext]_vars
    /\ WF_vars(SteadyNext)
    /\ WF_vars(TimerFireForever)
    /\ \A p \in Slots : WF_vars(SteadyPassStep(p))

-----------------------------------------------------------------------------
(* The normalizer on its own: summarizeERPData applied to one upstream     *)
(* record, and then to its own output.                                     *)

NormInit ==
    /\ variant \in Variants
    /\ proc = "boot"
    /\ allERPData = <<>>
    /\ dataFile = <<>>
    /\ db = {}
    /\ pass = [p \in Slots |-> NoPass]
    /\ req = NoReq
    /\ dbFailures = 0
    /\ fires = 0
    /\ restarts = 0
    /\ chat = NoChat
    /\ norm \in {[NoNorm EXCEPT !.pc = "raw", !.x = x] : x \in RawRecords}
    /\ paging = NoPaging

\* summarizeERPData(rawData) in preloadERPData
NormalizeOnce ==
    /\ norm.pc = "raw"
    /\ norm' = [norm EXCEPT !.pc = "once", !.once = summarize(variant, norm.x)]
    /\ UNCHANGED <<variant, proc, allERPData, dataFile, db, pass, req, dbFailures, fires,
                   restarts, chat, paging>>

\* summarizeERPData applied to a record it returned
NormalizeAgain ==
    /\ norm.pc = "once"
    /\ norm' = [norm EXCEPT !.pc = "twice", !.twice = summarize(variant, norm.once)]
    /\ UNCHANGED <<variant, proc, allERPData, dataFile, db, pass, req, dbFailures, fires,
                   restarts, chat, paging>>

NormNext ==
    \/ NormalizeOnce
    \/ NormalizeAgain

NormSpec == NormInit /\ [][NormNext]_vars

-----------------------------------------------------------------------------
(* The query engine on its own: the process is running, the in-memory set  *)
(* holds what earlier passes merged, and requests arrive.  The table and   *)
(* the passes play no part.                                                *)

\* the largest topN the translator asks for
MaxTopN == 3
\* how many POST /reset-memory requests one behaviour has
MaxResets == 1

Year2024 == JsStr(<<"2", "0", "2", "4">>)
Day(y, m, d) == Date(<<"2", "0", "2", y>>, <<"0", m>>, <<"0", d>>)

\* upstream orders: Acme 1000 and Apex 500 by Ana, Bolt "1,000" and Cora 500
\* by Ben, and an order that has only its key and its amount
Order1 ==
    Obj([so_pk |-> JsNum(1), so_upk |-> Word("SO-1"), Name_Cust |-> Word("Acme"),
         Name_Empl |-> Word("Ana"), Name_Dept |-> Word("Print"),
         TotalAmount_TransH |-> JsNum(10000), gpRate |-> JsNum(600),
         Status_TransH |-> Word("BILLED"), DateCreated_TransH |-> Day("4", "3", "1")])
Order2 ==
    Obj([so_pk |-> JsNum(2), so_upk |-> Word("SO-2"), Name_Cust |-> Word("Apex"),
         Name_Empl |-> Word("Ana"), Name_Dept |-> Word("Print"),
         TotalAmount_TransH |-> JsNum(5000), gpRate |-> JsNum(400),
         Status_TransH |-> Word("BILLED"), DateCreated_TransH |-> Day("4", "3", "2")])
Order3 ==
    Obj([so_pk |-> JsNum(3), so_upk |-> Word("SO-3"), Name_Cust |-> Word("Bolt"),
         Name_Empl |-> Word("Ben"), Name_Dept |-> Word("Sign"),
         TotalAmount_TransH |-> JsStr(CharsGrouped), gpRate |-> JsStr(CharsPercent),
         Status_TransH |-> Word("BILLED"), DateCreated_TransH |-> Day("4", "4", "1")])
Order4 ==
    Obj([so_pk |-> JsNum(4), TotalAmount_TransH |-> JsNum(1000)])
Order5 ==
    Obj([so_pk |-> JsNum(5), so_upk |-> Word("SO-5"), Name_Cust |-> Word("Cora"),
         Name_Empl |-> Word("Ben"), Name_Dept |-> Word("Sign"),
         TotalAmount_TransH |-> JsNum(5000), gpRate |-> JsNum(300),
         Status_TransH |-> Word("CANCELLED"), DateCreated_TransH |-> Day("3", "1", "5")])

\* a row as part_001 loads it from sales_orders: the columns customer_name and
\* sales_rep are not the fields customer and salesRep the engine reads
LoadedRow ==
    Obj([so_pk |-> JsNum(1), so_number |-> Word("SO-1"), date_created |-> Day("4", "3", "1"),
         status |-> Word("BILLED"), amount |-> JsNum(10000), gp_rate |-> JsNum(600),
         division |-> Word("Print")])

Summarized(v, raws) == [i \in DOMAIN raws |-> summarize(v, raws[i])]

\* The in-memory sets the requests are served from.  index.js never holds a
\* record whose amount is NaN: its INSERT comes first and fails.
QueryCaches(v) ==
    { <<>>,
      Summarized(v, <<Order1, Order2>>),
      Summarized(v, <<Order1, Order4>>),
      Summarized(v, <<Order2, Order5, Order1>>) }
    \cup (IF v # "index" THEN {Summarized(v, <<Order2, Order3, Order1>>)} ELSE {})
    \cup (IF v = "part1" THEN {<<LoadedRow>>} ELSE {})

Intents ==
    {JsUndef, Word("general"), Word("count"), Word("list"), Word("sample"),
     Word("topCustomers"), Word("topDivision"), Word("topSales"), Word("monthlyTotals"),
     Word("forecast")}

\* the objects the translator may return
TranslatedObjects ==
    { Desc([intent |-> i, year |-> y, salesRep |-> r, customer |-> c, status |-> st,
            topN |-> n]) :
        i \in Intents, y \in {JsUndef, Year2024},
        r \in {JsUndef, Word("ana"), Word("zed")}, c \in {JsUndef, Word("acme")},
        st \in {JsUndef, Word("billed")},
        n \in {JsUndef} \cup {JsNum(10 * k) : k \in 2..MaxTopN} }

\* what the call of the translator can come to
TranslatorOutcomes ==
    { [NoOutcome EXCEPT !.kind = "throws"],
      [NoOutcome EXCEPT !.kind = "notjson"],
      [NoOutcome EXCEPT !.kind = "json", !.shape = "null"],
      [NoOutcome EXCEPT !.kind = "json", !.shape = "number"] }
    \cup { [kind |-> "json", shape |-> "object", obj |-> o] : o \in TranslatedObjects }

\* what the free-text answerer returns when it returns
AnswerText == "answer"

QueryInit ==
    /\ variant \in Variants
    /\ proc = "running"
    /\ allERPData \in QueryCaches(variant)
    /\ dataFile = <<>>
    /\ db = {}
    /\ pass = [p \in Slots |-> NoPass]
    /\ req = NoReq
    /\ dbFailures = 0
    /\ fires = 0
    /\ restarts = 0
    /\ chat = NoChat
    /\ norm = NoNorm
    /\ paging = NoPaging

\* POST /chatbot arrives: the handler calls parseQuestionWithGPT and awaits the
\* translator.  answerer is what the free-text answerer does with this question.
ChatArrive ==
    /\ proc = "running"
    /\ chat.pc \in {"idle", "done"}
    /\ \E a \in {"ok", "throws"} :
         chat' = [NoChat EXCEPT !.pc = "parse", !.answerer = a, !.resets = chat.resets]
    /\ UNCHANGED <<variant, proc, allERPData, dataFile, db, pass, req, dbFailures, fires,
                   restarts, norm, paging>>

\* the translator has come back: parseQuestionWithGPT returns the descriptor,
\* filterOrders and formatResponse run up to the response or to the call of
\* the answerer
Parsed(out) ==
    LET parsed == parseQuestionWithGPT(variant, out)
        f == filterOrders(variant, allERPData, parsed)
        r == IF f.threw THEN NoResult
             ELSE formatResponse(variant, f.orders, parsed, chat.question)
        now == [chat EXCEPT !.tr = out, !.parsed = parsed, !.orders = f.orders,
                            !.result = r]
    IN  IF f.threw
            THEN [now EXCEPT !.pc = "done", !.err = "TypeError",
                             !.resp = <<Respond("TypeError", NoResult)>>]
        ELSE IF r.kind \in Awaits
            THEN [now EXCEPT !.pc = "answer"]
            ELSE [now EXCEPT !.pc = "done", !.resp = <<Respond("none", r)>>]

\* the translator comes back with any of its outcomes
ChatParsed ==
    /\ chat.pc = "parse"
    /\ \E out \in TranslatorOutcomes : chat' = Parsed(out)
    /\ UNCHANGED <<variant, proc, allERPData, dataFile, db, pass, req, dbFailures, fires,
                   restarts, norm, paging>>

\* the answerer returns its text: res.json({ type: "text", data: answer })
ChatAnswerOk ==
    /\ chat.pc = "answer"
    /\ chat.answerer = "ok"
    /\ chat' = [chat EXCEPT !.pc = "done",
                            !.resp = <<Respond("none", [chat.result EXCEPT !.text = AnswerText])>>]
    /\ UNCHANGED <<variant, proc, allERPData, dataFile, db, pass, req, dbFailures, fires,
                   restarts, norm, paging>>

\* the call of the answerer rejects: the catch block of the handler answers
ChatAnswerFail ==
    /\ chat.pc = "answer"
    /\ chat.answerer = "throws"
    /\ chat' = [chat EXCEPT !.pc = "done", !.err = "APIError",
                            !.resp = <<Respond("APIError", NoResult)>>]
    /\ UNCHANGED <<variant, proc, allERPData, dataFile, db, pass, req, dbFailures, fires,
                   restarts, norm, paging>>

\* POST /reset-memory: res.json({ success: true }); resets counts these responses
ResetMemory ==
    /\ proc = "running"
    /\ chat.resets < MaxResets
    /\ chat' = [chat EXCEPT !.resets = @ + 1]
    /\ allERPData' = resetMemory(allERPData)
    /\ UNCHANGED <<variant, proc, dataFile, db, pass, req, dbFailures, fires, restarts, norm, paging>>

QueryNext ==
    \/ ChatArrive
    \/ ChatParsed
    \/ ChatAnswerOk
    \/ ChatAnswerFail
    \/ ResetMemory

QuerySpec == QueryInit /\ [][QueryNext]_vars

-----------------------------------------------------------------------------
(* fetchAllSalesOrders on its own: one call, for the start year, against   *)
(* an upstream that may answer anything.                                   *)

PagingInit ==
    /\ variant \in Variants
    /\ proc = "running"
    /\ allERPData = <<>>
    /\ dataFile = <<>>
    /\ db = {}
    /\ pass = [p \in Slots |-> NoPass]
    /\ req = NoReq
    /\ dbFailures = 0
    /\ fires = 0
    /\ restarts = 0
    /\ chat = NoChat
    /\ norm = NoNorm
    /\ paging = NoPaging

\* fetchAllSalesOrders is called: allData = [], offset = 0, the first request
FetchAllStart ==
    /\ paging.pc = "idle"
    /\ paging' = [paging EXCEPT !.pc = "await", !.requests = <<0>>]
    /\ UNCHANGED <<variant, proc, allERPData, dataFile, db, pass, req, dbFailures, fires,
                   restarts, chat, norm>>

\* One turn of the while loop: callERP returns, soList is concatenated, and
\* the loop breaks or asks for the next page.  reply is the upstream's answer.
PageReturns(reply) ==
    LET r == callERP(reply)
        now == [paging EXCEPT !.replies = Append(@, reply)]
    IN  IF r.threw \/ r.value.shape = "null"
            THEN [now EXCEPT !.pc = "aborted",
                             !.err = IF r.threw THEN "FetchError" ELSE "TypeError"]
        ELSE IF shortPage(soListIn(r.value))
            THEN [now EXCEPT !.pc = "merge", !.allData = <<>>,
                             !.rawData = concat(paging.allData, soListIn(r.value))]
            ELSE [now EXCEPT !.allData = concat(@, soListIn(r.value)),
                             !.offset = @ + limit,
                             !.requests = Append(@, paging.offset + limit)]

\* the upstream answers the request in flight, with anything
PageReturnsAny ==
    /\ paging.pc = "await"
    /\ ~paging.honest
    /\ Len(paging.replies) < MaxPages
    /\ \E reply \in AnyReplies(paging.offset) : paging' = PageReturns(reply)
    /\ UNCHANGED <<variant, proc, allERPData, dataFile, db, pass, req, dbFailures, fires,
                   restarts, chat, norm>>

PagingNext ==
    \/ FetchAllStart
    \/ PageReturnsAny

PagingSpec == PagingInit /\ [][PagingNext]_vars

-----------------------------------------------------------------------------
(* preloadERPData against an upstream that holds n sales orders for every  *)
(* year and honours limit and offset.  mergeNewData is one await here: it  *)
(* returns, or an exception leaves it.                                     *)

\* the numbers of sales orders a year holds: around every multiple of limit
RecordCounts == {k \in 0..MaxRecords : k % limit \in {0, 1, 2, limit - 1}}

HonestInit ==
    /\ variant \in Variants
    /\ proc = "running"
    /\ allERPData = <<>>
    /\ dataFile = <<>>
    /\ db = {}
    /\ pass = [p \in Slots |-> NoPass]
    /\ req = NoReq
    /\ dbFailures = 0
    /\ fires = 0
    /\ restarts = 0
    /\ chat = NoChat
    /\ norm = NoNorm
    /\ paging \in {[NoPaging EXCEPT !.honest = TRUE, !.n = k] : k \in RecordCounts}

\* the upstream answers the request in flight with the page asked for
PageReturnsHonest ==
    /\ paging.pc = "await"
    /\ paging.honest
    /\ Len(paging.replies) < MaxPages
    /\ paging' = PageReturns(HonestReply(paging.n, paging.offset))
    /\ UNCHANGED <<variant, proc, allERPData, dataFile, db, pass, req, dbFailures, fires,
                   restarts, chat, norm>>

\* await mergeNewData(summarized) returns: the next year, or the pass is over
MergeReturns ==
    /\ paging.pc = "merge"
    /\ paging.honest
    /\ paging' = IF paging.year < CurrentYear
                    THEN [paging EXCEPT !.pc = "await", !.year = @ + 1, !.offset = 0,
                                        !.rawData = <<>>, !.requests = <<0>>,
                                        !.replies = <<>>]
                    ELSE [paging EXCEPT !.pc = "done"]
    /\ UNCHANGED <<variant, proc, allERPData, dataFile, db, pass, req, dbFailures, fires,
                   restarts, chat, norm>>

\* an exception leaves mergeNewData (a store round trip rejected outside a
\* try block): it leaves preloadERPData too
MergeThrows ==
    /\ paging.pc = "merge"
    /\ paging.honest
    /\ paging' = [paging EXCEPT !.pc = "aborted", !.err = "StoreError"]
    /\ UNCHANGED <<variant, proc, allERPData, dataFile, db, pass, req, dbFailures, fires,
                   restarts, chat, norm>>

HonestNext ==
    \/ FetchAllStart
    \/ PageReturnsHonest
    \/ MergeReturns
    \/ MergeThrows

\* every request to the upstream and every call of the store comes back
HonestSpec ==
    /\ HonestInit
    /\ [][HonestNext]_vars
    /\ WF_vars(HonestNext)

-----------------------------------------------------------------------------
(* The filters on their own: questions whose descriptor carries any        *)
(* combination of constraints, with intent list or with an intent that no  *)
(* variant knows.                                                          *)

\* an order of September 2025 whose memo names Acme
Order6 ==
    Obj([so_pk |-> JsNum(6), so_upk |-> Word("SO-6"), Name_Cust |-> Word("Bolt"),
         Name_Empl |-> Word("Ana"), Name_Dept |-> Word("Sign"),
         TotalAmount_TransH |-> JsNum(20000), gpRate |-> JsNum(500),
         Status_TransH |-> Word("BILLED"), DateCreated_TransH |-> Day("5", "9", "1"),
         Memo_TransH |-> Word("Acme")])

\* one of many orders of Acme by Ana, all of 2024-03-01
BulkOrder(k) ==
    Obj([so_pk |-> JsNum(10 * (100 + k)), so_upk |-> Word("SO-1"), Name_Cust |-> Word("Acme"),
         Name_Empl |-> Word("Ana"), Name_Dept |-> Word("Print"),
         TotalAmount_TransH |-> JsNum(10000), gpRate |-> JsNum(600),
         Status_TransH |-> Word("BILLED"), DateCreated_TransH |-> Day("4", "3", "1")])

\* more orders than the context of the fallback takes
BulkOrders == [k \in 1..(contextLimit + 1) |-> BulkOrder(k)]

FilterCaches(v) ==
    QueryCaches(v) \cup {Summarized(v, <<Order1, Order6, Order2>>), Summarized(v, BulkOrders)}

\* descriptors with every combination of constraints; 45 is a GP rate of 45%
ConstraintObjects ==
    { Desc([intent |-> i, customer |-> c, gpThreshold |-> g, salesRep |-> r,
            status |-> st, date |-> d, year |-> y]) :
        i \in {Word("list"), Word("forecast")}, c \in {JsUndef, Word("acme")},
        g \in {JsUndef, Threshold(">", 450), Threshold("~", 450)},
        r \in {JsUndef, Word("ana")}, st \in {JsUndef, Word("billed")},
        d \in {JsUndef, Day("4", "3", "1")}, y \in {JsUndef, Year2024} }

Questions == {PlainQuestion, JsStr(<<"orders", "in", "September", "2025">>)}

FilterInit ==
    /\ variant \in Variants
    /\ proc = "running"
    /\ allERPData \in FilterCaches(variant)
    /\ dataFile = <<>>
    /\ db = {}
    /\ pass = [p \in Slots |-> NoPass]
    /\ req = NoReq
    /\ dbFailures = 0
    /\ fires = 0
    /\ restarts = 0
    /\ chat = NoChat
    /\ norm = NoNorm
    /\ paging = NoPaging

\* POST /chatbot arrives with its question
AskArrive ==
    /\ chat.pc \in {"idle", "done"}
    /\ \E q \in Questions, a \in {"ok", "throws"} :
         chat' = [NoChat EXCEPT !.pc = "parse", !.question = q, !.answerer = a]
    /\ UNCHANGED <<variant, proc, allERPData, dataFile, db, pass, req, dbFailures, fires,
                   restarts, norm, paging>>

\* the translator returns a descriptor: filterOrders and formatResponse run
AskParsed ==
    /\ chat.pc = "parse"
    /\ \E o \in ConstraintObjects :
         chat' = Parsed([kind |-> "json", shape |-> "object", obj |-> o])
    /\ UNCHANGED <<variant, proc, allERPData, dataFile, db, pass, req, dbFailures, fires,
                   restarts, norm, paging>>

FilterNext ==
    \/ AskArrive
    \/ AskParsed
    \/ ChatAnswerOk
    \/ ChatAnswerFail

FilterSpec == FilterInit /\ [][FilterNext]_vars

-----------------------------------------------------------------------------
(* Questions for monthly totals *)

\* orders by Ana in other months of 2024: April, billed; February, cancelled
Order7 ==
    Obj([so_pk |-> JsNum(7), so_upk |-> Word("SO-7"), Name_Cust |-> Word("Bolt"),
         Name_Empl |-> Word("Ana"), Name_Dept |-> Word("Sign"),
         TotalAmount_TransH |-> JsNum(20000), gpRate |-> JsNum(500),
         Status_TransH |-> Word("BILLED"), DateCreated_TransH |-> Day("4", "4", "1")])
Order8 ==
    Obj([so_pk |-> JsNum(8), so_upk |-> Word("SO-8"), Name_Cust |-> Word("Cora"),
         Name_Empl |-> Word("Ana"), Name_Dept |-> Word("Sign"),
         TotalAmount_TransH |-> JsNum(70000), gpRate |-> JsNum(500),
         Status_TransH |-> Word("CANCELLED"), DateCreated_TransH |-> Day("4", "2", "1")])

\* the in-memory sets: those of QueryCaches, one with the later month first,
\* and one whose only order is the cancelled one
MonthlyCaches(v) ==
    QueryCaches(v)
        \cup {Summarized(v, <<Order7, Order1, Order8, Order2>>), Summarized(v, <<Order8>>)}

\* descriptors of intent monthlyTotals
MonthlyObjects ==
    { Desc([intent |-> Word("monthlyTotals"), year |-> y, salesRep |-> r, status |-> st]) :
        y \in {JsUndef, Year2024}, r \in {JsUndef, Word("ana"), Word("zed")},
        st \in {JsUndef, Word("billed")} }

MonthlyInit ==
    /\ variant \in Variants
    /\ proc = "running"
    /\ allERPData \in MonthlyCaches(variant)
    /\ dataFile = <<>>
    /\ db = {}
    /\ pass = [p \in Slots |-> NoPass]
    /\ req = NoReq
    /\ dbFailures = 0
    /\ fires = 0
    /\ restarts = 0
    /\ chat = NoChat
    /\ norm = NoNorm
    /\ paging = NoPaging

\* the translator returns a descriptor of intent monthlyTotals
MonthlyParsed ==
    /\ chat.pc = "parse"
    /\ \E o \in MonthlyObjects :
         chat' = Parsed([kind |-> "json", shape |-> "object", obj |-> o])
    /\ UNCHANGED <<variant, proc, allERPData, dataFile, db, pass, req, dbFailures, fires,
                   restarts, norm, paging>>

MonthlyNext ==
    \/ ChatArrive
    \/ MonthlyParsed
    \/ ChatAnswerOk
    \/ ChatAnswerFail

MonthlySpec == MonthlyInit /\ [][MonthlyNext]_vars

-----------------------------------------------------------------------------
(* part_001 with passes that overlap: the timer fires whatever the earlier *)
(* passes are doing, and no page of the upstream holds an identity twice.  *)

DistinctResponses(y) ==
    { r \in Responses(y) :
        \A k \in DOMAIN r.body.data : Cardinality(Ids(r.body.data[k])) = Len(r.body.data[k]) }

OverlapInit == Init /\ variant = "part1"

FetchDistinctPart1(p) ==
    variant = "part1" /\ FetchReturn(p, DistinctResponses(pass[p].year))

OverlapPassStep(p) ==
    \/ FetchDistinctPart1(p)
    \/ ConnectOkPart1(p)
    \/ ConnectFailPart1(p)
    \/ InsertOkPart1(p)
    \/ InsertFailPart1(p)

OverlapNext ==
    \/ ListenPart1
    \/ LoadOkPart1
    \/ LoadFailPart1
    \/ TimerFireForever
    \/ Crash
    \/ Restart
    \/ \E p \in Slots : OverlapPassStep(p)

OverlapSpec == OverlapInit /\ [][OverlapNext]_vars

-----------------------------------------------------------------------------
(* The claims *)

\* C1: in every reachable state no two records of allERPData share the same
\* identity so_pk, whatever batches the passes merged.
C1_UniqueIdentities ==
    Cardinality(Ids(allERPData)) = Len(allERPData)

\* a step of the running process (the process neither is nor goes down)
Running == proc # "down" /\ proc' # "down"

\* C2: merge is deduplicating: no step of the running process grows the
\* in-memory set by more than the number of identities that are new to it; a
\* batch that brings no new identity adds nothing.
C2_MergeDeduplicates ==
    [][Running =>
          Len(allERPData') - Len(allERPData)
              <= Cardinality(Ids(allERPData') \ Ids(allERPData))]_vars

\* C3: a record is never deleted: every identity in the in-memory set is still
\* in it after every step of the running process.
C3_NeverDeleted ==
    [][Running => Ids(allERPData) \subseteq Ids(allERPData')]_vars

\* C4: a pass that completes has visited every year from startYear to the
\* current year, and the in-memory set then holds a record for every identity
\* the upstream returned to it, for every one of those years.
C4_PassCoversEveryYear ==
    [][\A p \in Slots :
          (InFlight(p) /\ pass'[p].pc = "done") =>
              /\ pass[p].year = CurrentYear
              /\ pass[p].seen \subseteq Ids(allERPData')]_vars

\* C5: at most one pass of preloadERPData is in flight at any time.
C5_OnePassInFlight ==
    Cardinality({p \in Slots : InFlight(p)}) <= 1

\* C6: whenever the process is up, no merge is in progress and no store round
\* trip has failed, the in-memory set and the table hold the same identities,
\* and for each identity the same version of the record.
C6_StoreMatchesMemory ==
    (/\ proc \in {"startup", "running"}
     /\ dbFailures = 0
     /\ \A p \in Slots : pass[p].pc \notin MergePcs)
    => /\ Ids(allERPData) = DbIds(db)
       /\ \A k \in DOMAIN allERPData : \E row \in db :
              /\ row.so_pk = allERPData[k].so_pk
              /\ row.amount = allERPData[k].amount
              /\ row.customer = allERPData[k].customer

\* C7: a /chatbot request that read the in-memory set while a pass was in
\* flight read it either as it was when that pass started or as it is when that
\* pass completes.
C7_NoPartialVisibility ==
    [][\A p \in Slots :
          (p \in req.during /\ InFlight(p) /\ pass'[p].pc = "done") =>
              \/ req.view = pass[p].startMem
              \/ req.view = allERPData']_vars

\* the step of pass p in which a call of callERP met a fetch failure
FetchFailedStep(p) ==
    /\ pass[p].pc = "fetch"
    /\ pass'[p] # pass[p]
    /\ pass'[p].lastFetch = "failed"

\* C8: a fetch failure on a page is recovered as an empty page: no exception
\* leaves callERP, the records fetched for the year are those of the pages
\* before it, the year loop goes on with the merge of this year and the fetch
\* of the next one, and no pass is ever aborted by a fetch failure.
C8_FetchFailureIsEmptyPage ==
    [][\A p \in Slots :
          /\ pass'[p].err # "FetchError"
          /\ FetchFailedStep(p) =>
                /\ pass'[p].pc \in MergePcs \cup {"fetch", "done"}
                /\ pass'[p].rawData = pass[p].allData
                /\ pass'[p].pc \in MergePcs => pass'[p].year = pass[p].year
                /\ pass'[p].pc = "fetch" => pass'[p].year = pass[p].year + 1
                /\ pass'[p].pc = "done" => pass[p].year = CurrentYear]_vars

\* C8 witness: a pass whose fetch of an earlier year failed is fetching the
\* current year.
C8_Witness ==
    \E p \in Slots :
        /\ pass[p].pc = "fetch"
        /\ pass[p].year = CurrentYear
        /\ pass[p].lastFetch = "failed"

\* C9: a store failure never aborts a pass.
C9_StoreFailureDoesNotAbort ==
    \A p \in Slots : ~(pass[p].pc = "aborted" /\ pass[p].err = "StoreError")

\* C10: divergence after a store failure is transient: from some point on,
\* every identity of the in-memory set of the running process is in the table.
C10_DivergenceIsTransient ==
    <>[](proc = "down" \/ Ids(allERPData) \subseteq DbIds(db))

\* the response of the catch block of the handler
Failed500 == [status |-> 500, type |-> "none", data |-> NoResult, error |-> "Chatbot failed"]

TranslatorFailed == chat.tr.shape # "object"

\* C12: whatever the translator did, the descriptor parseQuestionWithGPT
\* returns has every recognised field, a field the translator left out is at
\* its default (null, [] for fields, "general" for intent), and after a
\* translator failure the descriptor is the default one.
C12_DescriptorAlwaysComplete ==
    chat.pc \in {"answer", "done"} =>
        /\ \A f \in DescFields : chat.parsed[f] # JsUndef
        /\ TranslatorFailed => chat.parsed = DefaultDescriptor
        /\ ~TranslatorFailed =>
              \A f \in DescFields :
                  chat.tr.obj[f] = JsUndef => chat.parsed[f] = DefaultDescriptor[f]

\* C13: the count intent over an empty filtered set answers with count 0,
\* total 0 and a highest GP that is a number (the fixed message for no order
\* is taken as such an answer), whichever filter emptied the set.
C13_CountOnEmptySet ==
    (/\ chat.pc = "done"
     /\ chat.err = "none"
     /\ chat.parsed["intent"] = Word("count")
     /\ chat.result.set = <<>>)
    => /\ chat.result.kind \in {"count", "nomatch"}
       /\ chat.result.kind = "count" =>
             /\ chat.result.n = 0
             /\ chat.result.total = JsNum(0)
             /\ chat.result.gp.t = "number"

\* the topN of the descriptor, 1 when absent
AskedTopN == JsOr(chat.parsed["topN"], JsNum(10)).n \div 10

\* the keys of the groups of the filtered set of the request
GroupsPresent ==
    {chat.result.set[i][GroupField(variant, chat.parsed["intent"])] :
        i \in DOMAIN chat.result.set}

\* C14: the lines of topCustomers, topDivision and topSales are ranked 1, 2,
\* ... in their order, strictly descending by summed amount, at most topN (1
\* when absent) and at most as many as there are groups.
C14_TopGroupsDescending ==
    (chat.pc = "done" /\ chat.err = "none" /\ chat.result.kind = "top") =>
        LET lines == chat.result.lines
        IN  /\ \A i \in DOMAIN lines : lines[i].rank = i
            /\ \A i, j \in DOMAIN lines :
                  i < j => /\ lines[i].amt.t = "number"
                           /\ lines[j].amt.t = "number"
                           /\ lines[i].amt.n > lines[j].amt.n
            /\ Len(lines) <= AskedTopN
            /\ Len(lines) <= Cardinality(GroupsPresent)

\* C15: monthlyTotals without year or without salesRep goes to the generic
\* fallback: the answerer is called with the question and a sample of the
\* filtered set; no error, no fixed message, no monthly listing.
C15_MonthlyWithoutYearOrRep ==
    (/\ chat.pc \in {"answer", "done"}
     /\ chat.parsed["intent"] = Word("monthlyTotals")
     /\ ~(Truthy(chat.parsed["year"]) /\ Truthy(chat.parsed["salesRep"])))
    => /\ chat.err \in {"none", "APIError"}
       /\ chat.result.kind = "fallback"
       /\ chat.result.context = slice(chat.result.set, contextLimit)

\* C16: with intent general the response is the text of the answerer, whatever
\* the in-memory set holds and whatever else the descriptor carries.
C16_GeneralIgnoresTheSet ==
    (/\ chat.pc = "done"
     /\ chat.parsed["intent"] = Word("general")
     /\ chat.answerer = "ok")
    => /\ chat.resp[1].status = 200
       /\ chat.resp[1].type = "text"
       /\ chat.resp[1].data = [NoResult EXCEPT !.kind = "answerer", !.text = AnswerText]

\* C17: normalization is idempotent: summarizeERPData applied to a record it
\* returned gives that record again, field by field.
C17_NormalizeIdempotent ==
    norm.pc = "twice" => norm.twice = norm.once

\* a finite number greater than or equal to zero
NonNegativeNumber(v) == v.t = "number" /\ v.n >= 0

\* strip every "%" and every ",", then parse; absent or non-numeric is 0
StripThenParse(v) ==
    LET p == parseFloat(replaceAll(replaceAll(toString(JsOr(v, JsNum(0))), "%"), ","))
    IN  IF p.t = "number" THEN p ELSE JsNum(0)

\* C18: after normalization amount and gpRate are finite numbers >= 0, equal
\* to the upstream value with every "%" and every "," stripped, and 0 when the
\* upstream value is absent or not numeric.
C18_NumericAfterNormalize ==
    norm.pc \in {"once", "twice"} =>
        /\ NonNegativeNumber(norm.once["amount"])
        /\ NonNegativeNumber(norm.once[GpField(variant)])
        /\ norm.once["amount"] = StripThenParse(norm.x["TotalAmount_TransH"])
        /\ norm.once[GpField(variant)] = StripThenParse(norm.x["gpRate"])

PassStarts(p) == pass[p].pc \notin InFlightPcs /\ pass'[p].pc = "fetch"

\* C20: a pass is started either at startup, once, after the initial load has
\* finished (for part_001 the await of loadDataFromDB has returned), or by the
\* timer after the startup pass has started; a step starts one pass at most.
C20_SchedulingOrder ==
    [][/\ Cardinality({p \in Slots : PassStarts(p)}) <= 1
       /\ \A p \in Slots : PassStarts(p) =>
            \/ /\ p = 1
               /\ proc = IF variant = "part1" THEN "loading" ELSE "boot"
               /\ proc' \in {"startup", "running"}
               /\ \A q \in Slots : pass[q].pc = "idle"
               /\ fires' = fires
            \/ /\ proc = "running"
               /\ fires' = fires + 1
               /\ pass[1].pc # "idle"]_vars

\* C20 witness: in part_001 the timer has started a pass after the startup pass.
C20_Witness ==
    /\ variant = "part1"
    /\ fires = 1
    /\ \E p \in Slots : pass[p].pc = "fetch"

\* the step that ends the initial load of a process that was started again:
\* part_001 returns from loadDataFromDB, index.js and part_000 have read
\* erpData.json when the module is loaded
ReloadStep ==
    /\ restarts' >= 1
    /\ \/ variant = "part1" /\ proc = "loading" /\ proc' = "startup"
       \/ variant # "part1" /\ proc = "down" /\ proc' = "boot"

\* C21: after a restart and the initial load the in-memory set holds exactly
\* one record for every identity of the durable store, and that record has the
\* canonical fields the store was written from (the record as it was in
\* memory before the restart).
C21_ReloadedOnStartup ==
    [][ReloadStep =>
          /\ Len(allERPData') = Cardinality(DbIds(db'))
          /\ \A row \in db' : \E k \in DOMAIN allERPData' :
                /\ allERPData'[k].so_pk = row.so_pk
                /\ allERPData'[k].so_upk = row.so_upk
                /\ allERPData'[k].amount = row.amount
                /\ allERPData'[k].customer = row.customer]_vars

\* the reply carries a page: data is an array whose first element is an array
WellFormed(reply) ==
    /\ reply.kind = "json"
    /\ reply.body.shape = "data"
    /\ Len(reply.body.data) >= 1
    /\ reply.body.data[1].t = "array"

\* the page of a reply; a reply without one counts as an empty page
PageIn(reply) == IF WellFormed(reply) THEN reply.body.data[1].s ELSE <<>>

\* the pages of the replies, one after the other
RECURSIVE PagesIn(_)
PagesIn(replies) ==
    IF replies = <<>> THEN <<>>
    ELSE PagesIn(SubSeq(replies, 1, Len(replies) - 1)) \o PageIn(replies[Len(replies)])

\* a step in which the request in flight was answered
Answered == paging.pc = "await" /\ paging' # paging

\* the reply of that step
LastReply == paging'.replies[Len(paging'.replies)]

\* C22: pagination stop rule: the offsets requested are 0, 500, 1000, ... in
\* that order, the next page is requested exactly when the page just returned
\* has 500 records, and the result is the concatenation of the returned pages.
C22_PaginationStopRule ==
    [][Answered =>
          /\ \A i \in DOMAIN paging'.requests : paging'.requests[i] = limit * (i - 1)
          /\ Len(paging'.requests) \in {Len(paging.requests), Len(paging.requests) + 1}
          /\ Len(paging'.requests) = Len(paging.requests) + 1
                <=> Len(PageIn(LastReply)) = limit
          /\ paging'.pc = "merge" => paging'.rawData = PagesIn(paging'.replies)]_vars

\* C23: a response without a page (null body, no data, data not a sequence,
\* data empty, first element absent or not a sequence) ends the paging of the
\* year: nothing is thrown, no further request is made, and no record is added.
C23_MalformedIsEmptyPage ==
    [][(Answered /\ LastReply.kind = "json" /\ ~WellFormed(LastReply)) =>
          /\ paging'.pc = "merge"
          /\ paging'.requests = paging.requests
          /\ paging'.rawData = paging.allData]_vars

\* C28: against an upstream that holds n records for a year and honours limit
\* and offset, fetchAllSalesOrders returns after exactly floor(n / 500) + 1
\* requests with the n records, each once, in upstream order; and every pass
\* eventually ends: it returns after the last year, or an exception of the
\* store leaves it.
C28_PagingTerminates ==
    /\ [](paging.pc = "merge" =>
            /\ Len(paging.requests) = (paging.n \div limit) + 1
            /\ paging.rawData = Listing(1, paging.n))
    /\ <>(paging.pc \in {"done", "aborted"})

\* C28 witness: the upstream holds 1000 records, and fetchAllSalesOrders has
\* returned after the extra request that the empty third page answered.
C28_Witness ==
    /\ paging.pc = "merge"
    /\ paging.n = 2 * limit
    /\ paging.requests = <<0, limit, 2 * limit>>
    /\ Len(paging.rawData) = 2 * limit

\* the lower-cased text of a field, "" when the record has none
TextOf(o, field) == toLowerCase(JsOr(o[field], JsStr(<<>>)))

\* the record satisfies every constraint the descriptor supplies, on the
\* canonical fields of the variant
Satisfies(v, o, d) ==
    /\ Truthy(d["customer"]) =>
          \E f \in {CustField(v), ContractField(v), MemoField(v)} :
              includes(TextOf(o, f).s, toLowerCase(d["customer"]).s)
    /\ Truthy(d["gpThreshold"]) => Compare(o[GpField(v)], d["gpThreshold"])
    /\ Truthy(d["salesRep"]) => TextOf(o, "salesRep") = toLowerCase(d["salesRep"])
    /\ Truthy(d["status"]) => TextOf(o, "status") = toLowerCase(d["status"])
    /\ Truthy(d["date"]) => o[IF v = "part1" THEN "date_created" ELSE "date"] = d["date"]
    /\ Truthy(d["year"]) =>
          LET x == o[IF v = "part1" THEN "date_created" ELSE "date"]
          IN  x.t = "string" /\ startsWith(x.s, d["year"].s)

\* C24: filtering is a conjunction: the set aggregation runs on is exactly the
\* records of the in-memory set that satisfy every supplied constraint, in
\* in-memory order, whatever the order of the filters and whatever the text
\* of the question; no constraint, the whole set.
C24_FilterIsConjunction ==
    (chat.pc = "done" /\ chat.parsed["intent"] = Word("list")) =>
        /\ chat.err = "none"
        /\ chat.result.set
              = SelectSeq(allERPData, LAMBDA o : Satisfies(variant, o, chat.parsed))

\* C25: an intent that is none of the known ones is answered by the free-text
\* answerer, called with the question and a context of at most 200 records,
\* every one of them a record of the in-memory set that satisfies the
\* constraints of the descriptor.
C25_UnknownIntentFallsBack ==
    (chat.pc \in {"answer", "done"} /\ chat.parsed["intent"] = Word("forecast")) =>
        /\ chat.err \in {"none", "APIError"}
        /\ chat.result.kind = "fallback"
        /\ Len(chat.result.context) <= contextLimit
        /\ \A i \in DOMAIN chat.result.context :
              /\ Satisfies(variant, chat.result.context[i], chat.parsed)
              /\ \E j \in DOMAIN allERPData : allERPData[j] = chat.result.context[i]

\* the intents the engine knows
KnownIntents ==
    {Word("count"), Word("list"), Word("sample"), Word("topCustomers"), Word("topDivision"),
     Word("topSales"), Word("monthlyTotals"), Word("general")}

\* C26: when the translator returns an object whose intent is missing or is
\* not one of the known intents, the descriptor parseQuestionWithGPT returns
\* has intent "general".
C26_IntentClassified ==
    (/\ chat.pc \in {"answer", "done"}
     /\ chat.tr.shape = "object"
     /\ chat.tr.obj["intent"] \notin KnownIntents)
    => chat.parsed["intent"] = Word("general")

\* C26 as the code has it: a missing intent becomes "general"; any other
\* intent the translator returned, known or not, is the intent of the
\* descriptor.
C26_MissingIntentIsGeneral ==
    (chat.pc \in {"answer", "done"} /\ chat.tr.shape = "object") =>
        chat.parsed["intent"]
            = IF Truthy(chat.tr.obj["intent"]) THEN chat.tr.obj["intent"] ELSE Word("general")

\* C26 witness: the translator returned an object without intent and the
\* request went on with intent "general".
C26_Witness ==
    /\ chat.pc \in {"answer", "done"}
    /\ chat.tr.shape = "object"
    /\ chat.tr.obj["intent"] = JsUndef
    /\ chat.parsed["intent"] = Word("general")

\* the records a monthly answer is about: they satisfy the constraints of the
\* descriptor, have a date, an allow-listed status and the asked sales rep
Qualifying(v, d) ==
    SelectSeq(allERPData, LAMBDA o :
        /\ Satisfies(v, o, d)
        /\ o[IF v = "part1" THEN "date_created" ELSE "date"].t = "string"
        /\ o["status"].t = "string" /\ o["status"].s \in validStatuses
        /\ TextOf(o, "salesRep") = toLowerCase(d["salesRep"]))

\* the year-month of a record
MonthOf(v, o) == slice(o[IF v = "part1" THEN "date_created" ELSE "date"].s, 7)

\* the sum of amount over the records of a sequence
RECURSIVE SumAmount(_)
SumAmount(orders) ==
    IF orders = <<>> THEN JsNum(0) ELSE JsAdd(SumAmount(Tail(orders)), Head(orders)["amount"])

\* C27: for intent monthlyTotals with year and salesRep the answer has one
\* line per year-month that has a qualifying record, each with the sum of
\* amount of exactly those records, in ascending month order; when no month
\* qualifies the answer is the explicit message for this rep and year.
C27_MonthlyTotals ==
    (/\ chat.pc = "done"
     /\ chat.parsed["intent"] = Word("monthlyTotals")
     /\ Truthy(chat.parsed["year"]) /\ Truthy(chat.parsed["salesRep"]))
    => LET q == Qualifying(variant, chat.parsed)
           months == {MonthOf(variant, q[i]) : i \in DOMAIN q}
           lines == chat.result.lines
       IN  /\ chat.err = "none"
           /\ chat.resp[1].status = 200
           /\ chat.result.kind = IF months = {} THEN "nomonth" ELSE "monthly"
           /\ Len(lines) = Cardinality(months)
           /\ \A i \in DOMAIN lines :
                 /\ lines[i].key.s \in months
                 /\ lines[i].amt
                      = SumAmount(SelectSeq(q, LAMBDA o : MonthOf(variant, o) = lines[i].key.s))
           /\ \A i, j \in DOMAIN lines : i < j => LexAfter(lines[j].key.s, lines[i].key.s)

\* C29: part_001 with overlapping passes, pages free of internal duplicates
\* and a load with unique identities: no identity is in the in-memory set
\* twice, in any reachable state.
C29_NoDoubleAppend ==
    \A i, j \in DOMAIN allERPData : allERPData[i].so_pk = allERPData[j].so_pk => i = j

\* C29 witness: a pass has appended a record and awaits the store while
\* another pass in flight has been given the same identity by the upstream.
C29_Witness ==
    \E p, q \in Slots :
        /\ p # q
        /\ pass[p].pc \in {"connect", "insert"}
        /\ InFlight(q)
        /\ Ids(pass[p].batch) \cap pass[q].seen # {}
        /\ Ids(pass[p].batch) \subseteq Ids(allERPData)

====
